---- MODULE Spec2Model ----
(***************************************************************************)
(* Resume analyser (src/resume_analyser.py): a Streamlit script.  Every    *)
(* user interaction re-runs the script from top to bottom; one action of   *)
(* this module is one such run.  A string is a sequence of code points, a  *)
(* byte string a sequence of numbers in 0..255.  The theme and the style   *)
(* sheet (lines 84-173) change how the page looks, not what it holds, and  *)
(* are left out.                                                           *)
(***************************************************************************)
EXTENDS Integers, Sequences, FiniteSets, TLC

VARIABLES
    jd,             \* widget state of the text area with key "jd"
    upload_option,  \* widget state of the radio
    uploaded_file,  \* widget state of the file uploader: <<>> (None) or <<file>>
    pasted,         \* widget state of the "Paste your resume text" text area
    clicked,        \* the button whose press started the last run ("" for none)
    resume_text,    \* the script's variable resume_text at the end of the last run
    reader_called,  \* the reader the last run called ("" for none); a reader reads the file's bytes
    display,        \* the messages the last run put on the page, in order
    calls,          \* the prompts the last run passed to generate_content, in order
    response,       \* what the external model did in the last run
    raise_at,       \* the line of the result display that raised in the last run (0: none)
    file,           \* reader specifications: the file object handed to the reader
    result          \* reader specifications: what the reader did

vars == <<jd, upload_option, uploaded_file, pasted, clicked, resume_text,
          reader_called, display, calls, response, raise_at, file, result>>

(***************************************************************************)
(* Bounds of the model.                                                    *)
(***************************************************************************)
MaxText == 1    \* longest job description and pasted resume
MaxLine == 2    \* longest text of a page or paragraph handed to a reader alone
MaxDoc == 1     \* most pages / paragraphs / bytes of a file uploaded in the page model
MaxPages == 3   \* most pages of a PDF handed to read_pdf alone
MaxParas == 3   \* most paragraphs of a document handed to read_docx alone
MaxBytes == 3   \* most bytes of a text file handed to read_txt alone

SeqsUpTo(S, n) == UNION {[1..k -> S] : k \in 0..n}

\* Code points used in texts: space and the letter a.
TextChars == {32, 97}
Strings == SeqsUpTo(TextChars, MaxText)
Lines == SeqsUpTo(TextChars, MaxLine)

NL == <<10>>

(***************************************************************************)
(* Python built-ins used by the script.                                    *)
(***************************************************************************)
\* The code points for which str.isspace() is true: what str.strip() removes.
Whitespace ==
    {9, 10, 11, 12, 13, 28, 29, 30, 31, 32, 133, 160, 5760} \cup (8192..8202)
        \cup {8232, 8233, 8239, 8287, 12288}

RECURSIVE LStrip(_)
LStrip(s) == IF s # <<>> /\ Head(s) \in Whitespace THEN LStrip(Tail(s)) ELSE s

RECURSIVE RStrip(_)
RStrip(s) ==
    IF s # <<>> /\ s[Len(s)] \in Whitespace THEN RStrip(SubSeq(s, 1, Len(s) - 1)) ELSE s

\* s.strip()
strip(s) == RStrip(LStrip(s))

\* sep.join(parts)
RECURSIVE join(_, _)
join(sep, parts) ==
    IF parts = <<>> THEN <<>>
    ELSE IF Len(parts) = 1 THEN parts[1]
    ELSE parts[1] \o sep \o join(sep, Tail(parts))

\* What a call did: returned a text, or raised.
Return(t) == [raised |-> FALSE, text |-> t]
Raise == [raised |-> TRUE, text |-> <<>>]

(***************************************************************************)
(* bytes.decode("utf-8"): the strict codec.                                 *)
(***************************************************************************)
IsCont(b) == 128 <= b /\ b <= 191

\* The sequence length the lead byte b announces; 0 for a byte that cannot lead.
LeadLen(b) ==
    IF b < 128 THEN 1
    ELSE IF 194 <= b /\ b <= 223 THEN 2
    ELSE IF 224 <= b /\ b <= 239 THEN 3
    ELSE IF 240 <= b /\ b <= 244 THEN 4
    ELSE 0

\* The second byte's range depends on the lead: no overlong forms, no
\* surrogates, nothing above U+10FFFF.
SecondOk(b0, b1) ==
    IF b0 = 224 THEN 160 <= b1 /\ b1 <= 191
    ELSE IF b0 = 237 THEN 128 <= b1 /\ b1 <= 159
    ELSE IF b0 = 240 THEN 144 <= b1 /\ b1 <= 191
    ELSE IF b0 = 244 THEN 128 <= b1 /\ b1 <= 143
    ELSE IsCont(b1)

\* The code point of the n-byte sequence at the head of bs.
CodePoint(bs, n) ==
    IF n = 1 THEN bs[1]
    ELSE IF n = 2 THEN (bs[1] - 192) * 64 + (bs[2] - 128)
    ELSE IF n = 3 THEN (bs[1] - 224) * 4096 + (bs[2] - 128) * 64 + (bs[3] - 128)
    ELSE (bs[1] - 240) * 262144 + (bs[2] - 128) * 4096 + (bs[3] - 128) * 64 + (bs[4] - 128)

\* The decoder's loop: acc is the text decoded so far.
RECURSIVE DecodeLoop(_, _)
DecodeLoop(bs, acc) ==
    IF bs = <<>> THEN Return(acc)
    ELSE LET n == LeadLen(bs[1]) IN
         IF n = 0 \/ Len(bs) < n THEN Raise
         ELSE IF n >= 2 /\ ~SecondOk(bs[1], bs[2]) THEN Raise
         ELSE IF \E i \in 3..n : ~IsCont(bs[i]) THEN Raise
         ELSE DecodeLoop(SubSeq(bs, n + 1, Len(bs)), Append(acc, CodePoint(bs, n)))

decode_utf8_sig(bs) ==
    IF Len(bs) >= 3 /\ SubSeq(bs, 1, 3) = <<239, 187, 191>>
    THEN DecodeLoop(SubSeq(bs, 4, Len(bs)), <<>>)
    ELSE DecodeLoop(bs, <<>>)

\* bs.decode("utf-8")
decode_utf8(bs) == DecodeLoop(bs, <<>>)

(***************************************************************************)
(* Uploaded files.  A file has a declared media type and its bytes; pdf    *)
(* and docx say what PdfReader(BytesIO(bytes)) and Document(BytesIO(bytes))*)
(* make of those bytes: they raise (ok = FALSE) or give pages, paragraphs. *)
(* page.extract_text() returns a text, returns None, or raises.            *)
(***************************************************************************)
PDF_TYPE == "application/pdf"
DOCX_TYPE == "application/vnd.openxmlformats-officedocument.wordprocessingml.document"
TXT_TYPE == "text/plain"

NoPdf == [ok |-> FALSE, pages |-> <<>>]
NoDocx == [ok |-> FALSE, paragraphs |-> <<>>]

PageNone == [outcome |-> "none", text |-> <<>>]
PageRaises == [outcome |-> "raise", text |-> <<>>]
PageOf(t) == [outcome |-> "text", text |-> t]

\* page.extract_text() or ""
extract_text_or_empty(page) ==
    IF page.outcome = "none" \/ page.text = <<>> THEN <<>> ELSE page.text

\* A separator after every page: not what the code does.
RECURSIVE read_pdf_loop_sep(_, _)
read_pdf_loop_sep(pages, text) ==
    IF pages = <<>> THEN Return(text)
    ELSE IF Head(pages).outcome = "raise" THEN Raise
    ELSE read_pdf_loop_sep(Tail(pages), text \o extract_text_or_empty(Head(pages)) \o NL)

\* for page in pdf.pages: text += page.extract_text() or ""
RECURSIVE read_pdf_loop(_, _)
read_pdf_loop(pages, text) ==
    IF pages = <<>> THEN Return(text)
    ELSE IF Head(pages).outcome = "raise" THEN Raise
    ELSE read_pdf_loop(Tail(pages), text \o extract_text_or_empty(Head(pages)))

read_pdf_sep(f) == IF ~f.pdf.ok THEN Raise ELSE read_pdf_loop_sep(f.pdf.pages, <<>>)

\* pdf = PdfReader(BytesIO(file.read())); text = ""; the loop; return text
read_pdf(f) == IF ~f.pdf.ok THEN Raise ELSE read_pdf_loop(f.pdf.pages, <<>>)

\* The filter with the text trimmed first: not what the code does.
keep_paragraph_stripped(text) == strip(text) # <<>>

\* ... if paragraph.text
keep_paragraph(text) == text # <<>>

\* [paragraph.text for paragraph in doc.paragraphs if paragraph.text]
RECURSIVE paragraph_texts(_)
paragraph_texts(paragraphs) ==
    IF paragraphs = <<>> THEN <<>>
    ELSE IF keep_paragraph(Head(paragraphs))
         THEN <<Head(paragraphs)>> \o paragraph_texts(Tail(paragraphs))
         ELSE paragraph_texts(Tail(paragraphs))

read_docx(f) ==
    IF ~f.docx.ok THEN Raise ELSE Return(join(NL, paragraph_texts(f.docx.paragraphs)))

\* The codec that drops a leading byte order mark: not what the code does.
read_txt_sig(f) == decode_utf8_sig(f.bytes)

read_txt(f) == decode_utf8(f.bytes)

(***************************************************************************)
(* What the page shows: a message has the call that made it (kind), its    *)
(* fixed wording (label) and what the run put into it.                     *)
(***************************************************************************)
MODEL_NAME == "gemini-1.5-flash"
PreviewLimit == 2000

Msg(kind, label) == [kind |-> kind, label |-> label, text |-> <<>>, items |-> <<>>, reason |-> ""]
TextMsg(kind, label, text) == [Msg(kind, label) EXCEPT !.text = text]

ErrorProcessingFile == Msg("error", "Error processing file")
WarnJobDescription == Msg("warning", "Please provide a job description")
WarnResume == Msg("warning", "Please provide your resume")
AnalysisComplete == Msg("success", "Analysis Complete!")
AnalysisResults == Msg("subheader", "Analysis Results")
AnalysisFailed == Msg("error", "Analysis failed")
CommonFixes == Msg("info", "Common fixes: Check API key, internet connection, or try shorter text")
FeedbackLink == Msg("markdown", "Click here to open the feedback form!")

\* st.text(resume_text[:2000] + ("..." if len(resume_text) > 2000 else ""))
Preview(text) ==
    TextMsg("expander", "Preview Resume Content (First 2000 characters)",
            IF Len(text) > PreviewLimit
            THEN SubSeq(text, 1, PreviewLimit) \o <<46, 46, 46>>
            ELSE text)

(***************************************************************************)
(* The upload branch: dispatch on the declared type, inside try/except.    *)
(***************************************************************************)
\* A chain that ends in else: read_txt: not what the code does.
reader_for_else_txt(type) ==
    IF type = PDF_TYPE THEN "read_pdf"
    ELSE IF type = DOCX_TYPE THEN "read_docx"
    ELSE "read_txt"

\* The reader the if/elif chain picks for a declared type; "" when no branch matches.
reader_for(type) ==
    IF type = PDF_TYPE THEN "read_pdf"
    ELSE IF type = DOCX_TYPE THEN "read_docx"
    ELSE IF type = TXT_TYPE THEN "read_txt"
    ELSE ""

call_reader(reader, f) ==
    IF reader = "read_pdf" THEN read_pdf(f)
    ELSE IF reader = "read_docx" THEN read_docx(f)
    ELSE read_txt(f)

\* An except branch that shows nothing: not what the code does.
upload_except_silent == <<>>

\* except Exception as e: st.error(f"Error processing file: {str(e)}")
upload_except == <<ErrorProcessingFile>>

\* The body of "if uploaded_file:": resume_text starts as "" and is assigned
\* only when the reader returns; the preview follows the chain in the try.
process_upload(f) ==
    LET reader == reader_for(f.type)
        r == IF reader = "" THEN Return(<<>>) ELSE call_reader(reader, f)
    IN  IF r.raised
        THEN [resume_text |-> <<>>, reader |-> reader, shown |-> upload_except]
        ELSE [resume_text |-> r.text, reader |-> reader, shown |-> <<Preview(r.text)>>]

\* Lines 200-239: resume_text = ""; then the branch of the input method.
resume_input(option, upfile, paste) ==
    IF option = "Upload File"
    THEN IF upfile = <<>>
         THEN [resume_text |-> <<>>, reader |-> "", shown |-> <<>>]
         ELSE process_upload(upfile[1])
    ELSE [resume_text |-> paste, reader |-> "", shown |-> <<>>]

(***************************************************************************)
(* The external model.  A response is what generate_content and the three  *)
(* attribute reads of line 75 do: generate_content raises, or reading      *)
(* response.text raises, or the text, the prompt feedback (<<>> for a      *)
(* falsy one) and the candidates come back.                                *)
(***************************************************************************)
NoResponse == [raises |-> "", text |-> <<>>, prompt_feedback |-> <<>>, candidates |-> <<>>]

AnalysisTexts == {<<82>>, <<83, 32>>}
Feedbacks ==
    {<<>>, <<[safety_ratings |-> <<[category |-> "HARASSMENT", probability |-> "LOW"]>>]>>}
CandidateLists ==
    {<<>>, <<[finish_reason |-> "STOP"]>>, <<[finish_reason |-> "SAFETY"]>>}

Responses ==
    {[NoResponse EXCEPT !.raises = r] : r \in {"generate_content", "text"}}
        \cup [raises : {""}, text : AnalysisTexts, prompt_feedback : Feedbacks,
              candidates : CandidateLists]

\* The f-string of lines 54-71: the fixed instructions around the two texts.
analysis_prompt(job_description, resume) ==
    [job_description |-> job_description, resume_text |-> resume]

\* A second generate_content call after a failed one: not what the code does.
get_resume_analysis_retry(job_description, resume, resp) ==
    LET prompt == analysis_prompt(job_description, resume) IN
    [calls |-> IF resp.raises = "generate_content" THEN <<prompt, prompt>> ELSE <<prompt>>,
     raised |-> resp.raises # "",
     analysis |-> resp.text, feedback |-> resp.prompt_feedback,
     candidates |-> resp.candidates]

\* One generate_content call; then response.text, .prompt_feedback, .candidates.
get_resume_analysis(job_description, resume, resp) ==
    [calls |-> <<analysis_prompt(job_description, resume)>>,
     raised |-> resp.raises # "",
     analysis |-> resp.text, feedback |-> resp.prompt_feedback,
     candidates |-> resp.candidates]

(***************************************************************************)
(* The Analyze Resume button.                                              *)
(***************************************************************************)
\* The test without the trimming: not what the code does.
is_blank_unstripped(s) == s = <<>>

\* not s.strip()
is_blank(s) == strip(s) = <<>>

Step(line, msg) == [line |-> line, msg |-> msg]

TechnicalDetails == Msg("expander", "Technical Details")
ModelUsed == [Msg("write", "Model Used") EXCEPT !.reason = MODEL_NAME]
SafetyFeedback(feedback) ==
    [Msg("write", "Safety Feedback") EXCEPT !.items = feedback[1].safety_ratings]
CompletionReason(candidates) ==
    [Msg("write", "Completion Reason") EXCEPT !.reason = candidates[1].finish_reason]

\* A display that withholds the text of a response stopped for safety: not
\* what the code does.
result_steps_gated(analysis, feedback, candidates) ==
    <<Step(253, AnalysisComplete), Step(254, AnalysisResults)>>
        \o (IF candidates # <<>> /\ candidates[1].finish_reason = "SAFETY"
            THEN <<>> ELSE <<Step(255, TextMsg("markdown", "", analysis))>>)
        \o <<Step(258, TechnicalDetails), Step(259, ModelUsed)>>
        \o (IF feedback # <<>> THEN <<Step(261, SafetyFeedback(feedback))>> ELSE <<>>)
        \o (IF candidates # <<>> THEN <<Step(263, CompletionReason(candidates))>> ELSE <<>>)

\* Lines 253-263: the display calls a returned analysis leads to, in order,
\* each with its line.
result_steps(analysis, feedback, candidates) ==
    <<Step(253, AnalysisComplete), Step(254, AnalysisResults),
      Step(255, TextMsg("markdown", "", analysis)),
      Step(258, TechnicalDetails), Step(259, ModelUsed)>>
        \o (IF feedback # <<>> THEN <<Step(261, SafetyFeedback(feedback))>> ELSE <<>>)
        \o (IF candidates # <<>> THEN <<Step(263, CompletionReason(candidates))>> ELSE <<>>)

StepLines(steps) == {steps[i].line : i \in 1..Len(steps)}

\* The messages of the steps run before the step at line raises (all of them
\* when line is 0).
RECURSIVE shown_before(_, _)
shown_before(steps, line) ==
    IF steps = <<>> \/ Head(steps).line = line THEN <<>>
    ELSE <<Head(steps).msg>> \o shown_before(Tail(steps), line)

\* An except branch without the hints: not what the code does.
analysis_except_bare == <<AnalysisFailed>>

\* except Exception as e: st.error(f"Analysis failed: ..."); st.info("Common fixes: ...")
analysis_except == <<AnalysisFailed, CommonFixes>>

\* Lines 243-267.  pressed: st.button returned True in this run.
analyze_section(pressed, job_description, resume, resp, line) ==
    IF ~pressed THEN [shown |-> <<>>, calls |-> <<>>]
    ELSE IF is_blank(job_description) THEN [shown |-> <<WarnJobDescription>>, calls |-> <<>>]
    ELSE IF is_blank(resume) THEN [shown |-> <<WarnResume>>, calls |-> <<>>]
    ELSE LET a == get_resume_analysis(job_description, resume, resp) IN
         IF a.raised THEN [shown |-> analysis_except, calls |-> a.calls]
         ELSE LET steps == result_steps(a.analysis, a.feedback, a.candidates) IN
              [shown |-> shown_before(steps, line)
                            \o (IF line \in StepLines(steps) THEN analysis_except ELSE <<>>),
               calls |-> a.calls]

\* Lines 277-278.
feedback_section(pressed) == IF pressed THEN <<FeedbackLink>> ELSE <<>>

(***************************************************************************)
(* The files of the model.  A file is a PDF, a word-processing document or *)
(* neither; its declared type is independent of that.  The bytes of a PDF  *)
(* are kept as its first byte "%", those of a .docx (a zip archive) as     *)
(* "PK" and a byte that is not UTF-8.                                      *)
(***************************************************************************)
MediaTypes == {PDF_TYPE, DOCX_TYPE, TXT_TYPE, "application/octet-stream"}

PdfContent(pages) == [bytes |-> <<37>>, pdf |-> [ok |-> TRUE, pages |-> pages], docx |-> NoDocx]
DocxContent(paragraphs) ==
    [bytes |-> <<80, 75, 192>>, pdf |-> NoPdf,
     docx |-> [ok |-> TRUE, paragraphs |-> paragraphs]]
RawContent(bytes) == [bytes |-> bytes, pdf |-> NoPdf, docx |-> NoDocx]

FileOf(type, content) ==
    [type |-> type, bytes |-> content.bytes, pdf |-> content.pdf, docx |-> content.docx]

\* Uploads of the page model.
UiPages == {PageOf(<<97>>)}
UiParagraphs == {<<97>>}
UiByteValues == {65, 192}
UiContents ==
    {PdfContent(p) : p \in SeqsUpTo(UiPages, MaxDoc)}
        \cup {DocxContent(p) : p \in SeqsUpTo(UiParagraphs, MaxDoc)}
        \cup {RawContent(b) : b \in SeqsUpTo(UiByteValues, MaxDoc)}
UiFiles == {FileOf(t, c) : t \in MediaTypes, c \in UiContents}

\* Inputs of the readers taken alone.
PageSet == {PageNone, PageRaises} \cup {PageOf(t) : t \in Lines}
PdfFiles ==
    {FileOf(PDF_TYPE, PdfContent(p)) : p \in SeqsUpTo(PageSet, MaxPages)}
        \cup {FileOf(PDF_TYPE, RawContent(<<65>>))}
DocxFiles ==
    {FileOf(DOCX_TYPE, DocxContent(p)) : p \in SeqsUpTo(Lines, MaxParas)}
        \cup {FileOf(DOCX_TYPE, RawContent(<<65>>))}
\* A, four continuation bytes, an overlong lead, the leads of e-acute, of the
\* surrogates and of the byte order mark.
ByteValues == {65, 128, 160, 169, 187, 191, 192, 195, 237, 239}
TxtFiles == {FileOf(TXT_TYPE, RawContent(b)) : b \in SeqsUpTo(ByteValues, MaxBytes)}

(***************************************************************************)
(* The page: one action is one run of the script.                          *)
(***************************************************************************)
NoFileArg == FileOf("", RawContent(<<>>))
Pending == [done |-> FALSE, raised |-> FALSE, text |-> <<>>]
Done(r) == [done |-> TRUE, raised |-> r.raised, text |-> r.text]

\* The state after the first run: nothing entered, no button pressed.
UiInit ==
    /\ jd = <<>>
    /\ upload_option = "Upload File"
    /\ uploaded_file = <<>>
    /\ pasted = <<>>
    /\ clicked = ""
    /\ resume_text = <<>>
    /\ reader_called = ""
    /\ display = <<>>
    /\ calls = <<>>
    /\ response = NoResponse
    /\ raise_at = 0

Init == UiInit /\ file = NoFileArg /\ result = Pending

\* The run itself, with the widget states of the new run already set: button
\* is the button whose press started it, resp and line what the model and
\* the result display do in it.
Run(button, resp, line) ==
    LET input == resume_input(upload_option', uploaded_file', pasted')
        analysis == analyze_section(button = "analyze", jd', input.resume_text, resp, line)
    IN  /\ clicked' = button
        /\ resume_text' = input.resume_text
        /\ reader_called' = input.reader
        /\ display' = input.shown \o analysis.shown \o feedback_section(button = "feedback")
        /\ calls' = analysis.calls
        /\ response' = resp
        /\ raise_at' = line
        /\ UNCHANGED <<file, result>>

EditJobDescription ==
    \E t \in Strings \ {jd} :
        /\ jd' = t
        /\ UNCHANGED <<upload_option, uploaded_file, pasted>>
        /\ Run("", NoResponse, 0)

\* The radio.  Streamlit drops the state of a widget a run does not render:
\* the uploader's when the method becomes "Paste Text", the text area's when
\* it becomes "Upload File".
ChooseInputMethod ==
    /\ upload_option' = IF upload_option = "Upload File" THEN "Paste Text" ELSE "Upload File"
    /\ uploaded_file' = <<>>
    /\ pasted' = <<>>
    /\ UNCHANGED <<jd>>
    /\ Run("", NoResponse, 0)

UploadFile ==
    /\ upload_option = "Upload File"
    /\ \E f \in {<<>>} \cup {<<u>> : u \in UiFiles} :
        /\ f # uploaded_file
        /\ uploaded_file' = f
    /\ UNCHANGED <<jd, upload_option, pasted>>
    /\ Run("", NoResponse, 0)

PasteResume ==
    /\ upload_option = "Paste Text"
    /\ \E t \in Strings \ {pasted} : pasted' = t
    /\ UNCHANGED <<jd, upload_option, uploaded_file>>
    /\ Run("", NoResponse, 0)

\* The lines at which the display of a returned analysis can raise.
RaiseLines(resp) ==
    StepLines(result_steps(resp.text, resp.prompt_feedback, resp.candidates))

\* Pressing "Analyze Resume".  The model answers only when it is called, and
\* a display step raises only when it is reached.
PressAnalyze ==
    /\ UNCHANGED <<jd, upload_option, uploaded_file, pasted>>
    /\ LET resume == resume_input(upload_option, uploaded_file, pasted).resume_text
           called == analyze_section(TRUE, jd, resume, NoResponse, 0).calls # <<>>
       IN  \E resp \in Responses \cup {NoResponse} :
           \E line \in {0} \cup RaiseLines(resp) :
               /\ called <=> resp # NoResponse
               /\ resp.raises # "" => line = 0
               /\ Run("analyze", resp, line)

PressGiveFeedback ==
    /\ UNCHANGED <<jd, upload_option, uploaded_file, pasted>>
    /\ Run("feedback", NoResponse, 0)

Next ==
    \/ EditJobDescription
    \/ ChooseInputMethod
    \/ UploadFile
    \/ PasteResume
    \/ PressAnalyze
    \/ PressGiveFeedback

Spec == Init /\ [][Next]_vars

(***************************************************************************)
(* The readers taken alone: the file is any file of the reader's kind and  *)
(* the one action calls the reader on it.                                  *)
(***************************************************************************)
CallReadPdf ==
    /\ ~result.done
    /\ result' = Done(read_pdf(file))
    /\ UNCHANGED <<jd, upload_option, uploaded_file, pasted, clicked, resume_text,
                   reader_called, display, calls, response, raise_at, file>>

CallReadDocx ==
    /\ ~result.done
    /\ result' = Done(read_docx(file))
    /\ UNCHANGED <<jd, upload_option, uploaded_file, pasted, clicked, resume_text,
                   reader_called, display, calls, response, raise_at, file>>

CallReadTxt ==
    /\ ~result.done
    /\ result' = Done(read_txt(file))
    /\ UNCHANGED <<jd, upload_option, uploaded_file, pasted, clicked, resume_text,
                   reader_called, display, calls, response, raise_at, file>>

PdfInit == UiInit /\ file \in PdfFiles /\ result = Pending
DocxInit == UiInit /\ file \in DocxFiles /\ result = Pending
TxtInit == UiInit /\ file \in TxtFiles /\ result = Pending

SpecPdf == PdfInit /\ [][CallReadPdf]_vars
SpecDocx == DocxInit /\ [][CallReadDocx]_vars
SpecTxt == TxtInit /\ [][CallReadTxt]_vars

(***************************************************************************)
(* Properties.                                                             *)
(***************************************************************************)
\* A text that is empty or holds only whitespace.
Blank(s) == \A i \in 1..Len(s) : s[i] \in Whitespace

Shows(m) == \E i \in 1..Len(display) : display[i] = m

\* The last run was an Analyze press that passed the validation.
Accepted == clicked = "analyze" /\ ~Blank(jd) /\ ~Blank(resume_text)

\* C1: the model is called only with a job description and a resume text that
\* are both non-empty after trimming, whichever the input method; an Analyze
\* press with either of them empty or whitespace-only shows a warning and
\* calls nothing.
C1_ModelCalledOnlyWithBothFields ==
    /\ \A i \in 1..Len(calls) :
           ~Blank(calls[i].job_description) /\ ~Blank(calls[i].resume_text)
    /\ calls # <<>> => clicked = "analyze" /\ ~Blank(jd) /\ ~Blank(resume_text)
    /\ clicked = "analyze" /\ (Blank(jd) \/ Blank(resume_text)) =>
           /\ calls = <<>>
           /\ response = NoResponse
           /\ Shows(WarnJobDescription) \/ Shows(WarnResume)

C1_Witness ==
    /\ clicked = "analyze"
    /\ upload_option = "Paste Text"
    /\ jd = <<97>>
    /\ pasted = <<32>>
    /\ Shows(WarnResume)
    /\ calls = <<>>

\* The sum of Len(parts[i]) + gap over i < k.
RECURSIVE OffsetOf(_, _, _)
OffsetOf(parts, k, gap) ==
    IF k <= 1 THEN 0 ELSE OffsetOf(parts, k - 1, gap) + Len(parts[k - 1]) + gap

\* text is the parts in order with a single newline between neighbours.
IsNewlineJoin(text, parts) ==
    LET n == Len(parts) IN
    /\ Len(text) = IF n = 0 THEN 0 ELSE OffsetOf(parts, n + 1, 1) - 1
    /\ \A k \in 1..n :
           LET at == OffsetOf(parts, k, 1) IN
           /\ SubSeq(text, at + 1, at + Len(parts[k])) = parts[k]
           /\ k < n => text[at + Len(parts[k]) + 1] = 10

NonBlankParagraph(t) == ~Blank(t)
NonEmptyParagraph(t) == Len(t) > 0

\* C2 as stated: read_docx returns, newline-joined and in order, exactly the
\* paragraphs whose text is non-empty after trimming whitespace.
C2_Original ==
    result.done /\ ~result.raised =>
        IsNewlineJoin(result.text, SelectSeq(file.docx.paragraphs, NonBlankParagraph))

\* C2, amended: read_docx returns, newline-joined and in order, exactly the
\* paragraphs whose text is not the empty string; nothing is trimmed, so a
\* whitespace-only paragraph is kept as it is.
C2_NonEmptyParagraphsJoined ==
    result.done /\ ~result.raised =>
        IsNewlineJoin(result.text, SelectSeq(file.docx.paragraphs, NonEmptyParagraph))

C2_Witness ==
    /\ result.done
    /\ file.docx.paragraphs = <<<<97>>, <<>>, <<32>>>>
    /\ result.text = <<97, 10, 32>>

\* The text a page contributes: its extracted text, nothing for None.
PageStr(page) == IF page.outcome = "text" THEN page.text ELSE <<>>

PageStrs(pages) == [k \in 1..Len(pages) |-> PageStr(pages[k])]

\* C3: read_pdf returns the texts of the pages in page order, one after the
\* other with nothing between them; a page without text (None or "") takes no
\* room in the result and leaves the other pages' texts as they are.
C3_PagesConcatenated ==
    result.done /\ ~result.raised =>
        LET parts == PageStrs(file.pdf.pages)
            n == Len(parts)
        IN  /\ Len(result.text) = OffsetOf(parts, n + 1, 0)
            /\ \A k \in 1..n :
                   SubSeq(result.text, OffsetOf(parts, k, 0) + 1, OffsetOf(parts, k + 1, 0))
                       = parts[k]

C3_Witness ==
    /\ result.done
    /\ file.pdf.pages = <<PageOf(<<97>>), PageNone, PageOf(<<32, 97>>)>>
    /\ result.text = <<97, 32, 97>>

\* The last run had an uploaded file to process.
Uploaded == upload_option = "Upload File" /\ uploaded_file # <<>>

\* C4: an upload whose declared type is none of the three supported ones
\* raises nothing and shows no error: no reader is called (so the bytes are
\* not read) and the resume text is the empty string.
C4_UnknownTypeGivesEmptyText ==
    Uploaded /\ uploaded_file[1].type \notin {PDF_TYPE, DOCX_TYPE, TXT_TYPE} =>
        /\ reader_called = ""
        /\ resume_text = <<>>
        /\ ~Shows(ErrorProcessingFile)
        /\ \A i \in 1..Len(display) : display[i].kind # "error"

C4_Witness ==
    /\ Uploaded
    /\ uploaded_file[1].type = "application/octet-stream"
    /\ uploaded_file[1].bytes = <<65>>
    /\ resume_text = <<>>
    /\ display = <<Preview(<<>>)>>

\* The messages of the last run that follow the resume preview.
AfterPreview ==
    IF display # <<>> /\ display[1].kind = "expander" /\ display[1].label # "Technical Details"
    THEN Tail(display) ELSE display

\* C5: when the model call of an accepted Analyze press raises, the page shows
\* "Analysis failed" with the hints and no analysis result, and the job
\* description and the resume text (the widgets' states and the script's
\* variable) are what they were before the press.
C5_FailureKeepsInputs ==
    /\ [](response.raises # "" =>
            /\ Accepted
            /\ AfterPreview = <<AnalysisFailed, CommonFixes>>
            /\ calls[1].job_description = jd
            /\ calls[1].resume_text = resume_text)
    /\ [][response'.raises # "" =>
            /\ jd' = jd
            /\ resume_text' = resume_text
            /\ uploaded_file' = uploaded_file
            /\ pasted' = pasted
            /\ upload_option' = upload_option]_vars

C5_Witness ==
    /\ response.raises = "generate_content"
    /\ Uploaded
    /\ resume_text = <<97>>
    /\ Shows(AnalysisFailed)

\* C6: an accepted Analyze press calls generate_content exactly once, whether
\* the call returns or raises and whatever happens after it; no other run
\* calls it.
C6_ExactlyOneCall ==
    /\ Accepted => Len(calls) = 1
    /\ ~Accepted => Len(calls) = 0

C6_Witness ==
    /\ Accepted
    /\ response.raises = "generate_content"
    /\ Len(calls) = 1

\* The UTF-8 encoding of a text, code point by code point.
EncodeOne(c) ==
    IF c < 128 THEN <<c>>
    ELSE IF c < 2048 THEN <<192 + (c \div 64), 128 + (c % 64)>>
    ELSE IF c < 65536 THEN <<224 + (c \div 4096), 128 + ((c \div 64) % 64), 128 + (c % 64)>>
    ELSE <<240 + (c \div 262144), 128 + ((c \div 4096) % 64),
           128 + ((c \div 64) % 64), 128 + (c % 64)>>

RECURSIVE encode_utf8(_)
encode_utf8(s) == IF s = <<>> THEN <<>> ELSE EncodeOne(Head(s)) \o encode_utf8(Tail(s))

\* Well-formed UTF-8 (the Unicode standard's table 3-7).
RECURSIVE WellFormed(_)
WellFormed(bs) ==
    \/ bs = <<>>
    \/ \E n \in 1..4 :
        /\ Len(bs) >= n
        /\ \/ n = 1 /\ bs[1] \in 0..127
           \/ n = 2 /\ bs[1] \in 194..223 /\ bs[2] \in 128..191
           \/ n = 3 /\ bs[1] = 224 /\ bs[2] \in 160..191 /\ bs[3] \in 128..191
           \/ n = 3 /\ bs[1] \in (225..236) \cup {238, 239} /\ bs[2] \in 128..191
                    /\ bs[3] \in 128..191
           \/ n = 3 /\ bs[1] = 237 /\ bs[2] \in 128..159 /\ bs[3] \in 128..191
           \/ n = 4 /\ bs[1] = 240 /\ bs[2] \in 144..191 /\ bs[3] \in 128..191
                    /\ bs[4] \in 128..191
           \/ n = 4 /\ bs[1] \in 241..243 /\ bs[2] \in 128..191 /\ bs[3] \in 128..191
                    /\ bs[4] \in 128..191
           \/ n = 4 /\ bs[1] = 244 /\ bs[2] \in 128..143 /\ bs[3] \in 128..191
                    /\ bs[4] \in 128..191
        /\ WellFormed(SubSeq(bs, n + 1, Len(bs)))

\* The reader the upload's declared type selects raises on the uploaded file.
UploadRaises ==
    /\ Uploaded
    /\ LET f == uploaded_file[1] IN
       \/ f.type = PDF_TYPE
            /\ (~f.pdf.ok \/ \E k \in 1..Len(f.pdf.pages) : f.pdf.pages[k].outcome = "raise")
       \/ f.type = DOCX_TYPE /\ ~f.docx.ok
       \/ f.type = TXT_TYPE /\ ~WellFormed(f.bytes)

\* C7 as stated: a reader's error is shown as "Error processing file", the
\* resume text stays empty, and an Analyze press in that run is rejected with
\* the "provide your resume" warning without a model call.
C7_Original ==
    UploadRaises =>
        /\ Len(display) >= 1 /\ display[1] = ErrorProcessingFile
        /\ resume_text = <<>>
        /\ clicked = "analyze" => Shows(WarnResume) /\ calls = <<>>

\* C7, amended: a reader's error is shown as "Error processing file", the
\* resume text stays empty and the run goes on; an Analyze press in that run
\* calls no model and is rejected with a warning: "provide your resume" when
\* the job description is not blank, "provide a job description" when it is
\* (that test comes first).
C7_UploadErrorRejectsAnalyze ==
    UploadRaises =>
        /\ Len(display) >= 1 /\ display[1] = ErrorProcessingFile
        /\ resume_text = <<>>
        /\ clicked = "analyze" =>
               /\ calls = <<>>
               /\ display = <<ErrorProcessingFile,
                              IF Blank(jd) THEN WarnJobDescription ELSE WarnResume>>

C7_Witness ==
    /\ UploadRaises
    /\ uploaded_file[1].type = TXT_TYPE
    /\ uploaded_file[1].bytes = <<192>>
    /\ clicked = "analyze"
    /\ jd = <<97>>
    /\ display = <<ErrorProcessingFile, WarnResume>>

\* C8: on well-formed UTF-8 read_txt returns a text whose UTF-8 encoding is
\* the input, byte for byte, and reading that encoding again returns the same
\* text.
C8_ReadTxtLossless ==
    result.done /\ WellFormed(file.bytes) =>
        /\ ~result.raised
        /\ encode_utf8(result.text) = file.bytes
        /\ read_txt(FileOf(TXT_TYPE, RawContent(encode_utf8(result.text))))
               = Return(result.text)

C8_Witness ==
    /\ result.done
    /\ ~result.raised
    /\ file.bytes = <<239, 187, 191>>
    /\ result.text = <<65279>>

\* The last run was an accepted Analyze press whose model call returned.
Returned == Accepted /\ calls # <<>> /\ response.raises = ""

\* C9: what a returned analysis shows outside the Technical Details section
\* is fixed by the response's text alone: the success message, the heading
\* and the text itself, whatever the prompt feedback, the candidates and the
\* finish reason are; the metadata is shown inside the section and decides
\* nothing else.
C9_MetadataOnlyInTechnicalDetails ==
    Returned =>
        LET shown == AfterPreview IN
        /\ raise_at # 253 => shown[1] = AnalysisComplete
        /\ raise_at \notin {253, 254, 255} =>
               SubSeq(shown, 1, 3) =
                   <<AnalysisComplete, AnalysisResults, TextMsg("markdown", "", response.text)>>
        /\ raise_at = 0 =>
               /\ Len(shown) >= 5
               /\ shown[4] = TechnicalDetails
               /\ \A i \in 5..Len(shown) : shown[i].kind = "write"

C9_Witness ==
    /\ Returned
    /\ raise_at = 0
    /\ response.prompt_feedback # <<>>
    /\ response.candidates = <<[finish_reason |-> "SAFETY"]>>
    /\ AfterPreview[3] = TextMsg("markdown", "", <<82>>)

\* C10: an accepted Analyze press ends showing exactly one of "Analysis
\* Complete!" and "Analysis failed", also when a display step after the model
\* call raises.
C10_ExactlyOneOutcome ==
    Accepted => (Shows(AnalysisComplete) /\ ~Shows(AnalysisFailed))
                    \/ (~Shows(AnalysisComplete) /\ Shows(AnalysisFailed))

====
